---- MODULE Spec2Model ----
(***************************************************************************)
(* A model of CathReadings (cathReadings.js): the MMDDYY date codec, the   *)
(* two-tier cache, getReadings and the proxy race of fetchViaProxies.      *)
(*                                                                         *)
(* Strings are sequences of one-character strings.  A Date is its local    *)
(* day number (days since 1970-01-01, local midnight); the host time zone  *)
(* plays no part in what is modelled here.                                 *)
(***************************************************************************)
EXTENDS Integers, Sequences, FiniteSets, TLC

(***************************************************************************)
(* Bounds of the model.                                                    *)
(***************************************************************************)
\* the longest date string decode is tried on
MaxKeyLen == 7
\* the largest number of proxy candidates raced
MaxRoutes == 3
\* the fewest proxy candidates raced
MinRoutes == 2
\* the number of getReadings / fetchViaProxies calls a caller makes
MaxCalls == 2
\* words in a heading and verse blocks on a page
MaxWords == 2
MaxBlocks == 3

(***************************************************************************)
(* Program constants.                                                      *)
(***************************************************************************)
\* this.timeout, the deadline getReadings gives the race
DefaultTimeoutMs == 6000
\* the stagger between route starts, i * 150
StaggerMs == 150
\* a deadline shorter than the second stagger slot, for direct calls of
\* fetchViaProxies(url, totalTimeoutMs)
ShortTimeoutMs == 200

(***************************************************************************)
(* Characters and strings.                                                 *)
(***************************************************************************)
Digits == {"0", "1", "2", "3", "4", "5", "6", "7", "8", "9"}

DigitVal(c) ==
  CASE c = "0" -> 0 [] c = "1" -> 1 [] c = "2" -> 2 [] c = "3" -> 3
    [] c = "4" -> 4 [] c = "5" -> 5 [] c = "6" -> 6 [] c = "7" -> 7
    [] c = "8" -> 8 [] c = "9" -> 9

DigitChar(n) ==
  CASE n = 0 -> "0" [] n = 1 -> "1" [] n = 2 -> "2" [] n = 3 -> "3"
    [] n = 4 -> "4" [] n = 5 -> "5" [] n = 6 -> "6" [] n = 7 -> "7"
    [] n = 8 -> "8" [] n = 9 -> "9"

\* parseInt(s, 10) of a string of two decimal digits
parseInt2(s) == 10 * DigitVal(s[1]) + DigitVal(s[2])

\* String(n) without the padding
padStart2Unpadded(n) ==
  IF n < 10 THEN <<DigitChar(n)>> ELSE <<DigitChar(n \div 10), DigitChar(n % 10)>>

\* String(n).padStart(2, '0') for 0 <= n <= 99
padStart2(n) == <<DigitChar(n \div 10), DigitChar(n % 10)>>

\* String(n).slice(-2) for a year n >= 10
slice2(n) == <<DigitChar((n \div 10) % 10), DigitChar(n % 10)>>

(***************************************************************************)
(* The calendar arithmetic of the Date constructor and getters.            *)
(***************************************************************************)
IsLeap(y) == (y % 4 = 0 /\ y % 100 # 0) \/ y % 400 = 0

DaysInMonth(y, m) ==
  CASE m = 2 -> IF IsLeap(y) THEN 29 ELSE 28
    [] m \in {4, 6, 9, 11} -> 30
    [] OTHER -> 31

\* days from 1970-01-01 to the civil date y-m-d (m in 1..12)
DaysFromCivil(y, m, d) ==
  LET yy  == IF m <= 2 THEN y - 1 ELSE y
      era == yy \div 400
      yoe == yy - era * 400
      mp  == (m + 9) % 12
      doy == (153 * mp + 2) \div 5 + d - 1
      doe == yoe * 365 + yoe \div 4 - yoe \div 100 + doy
  IN  era * 146097 + doe - 719468

\* the civil date of a day number
CivilFromDays(z0) ==
  LET z   == z0 + 719468
      era == z \div 146097
      doe == z - era * 146097
      yoe == (doe - doe \div 1460 + doe \div 36524 - doe \div 146096) \div 365
      doy == doe - (365 * yoe + yoe \div 4 - yoe \div 100)
      mp  == (5 * doy + 2) \div 153
      d   == doy - (153 * mp + 2) \div 5 + 1
      m   == IF mp < 10 THEN mp + 3 ELSE mp - 9
      y   == yoe + era * 400 + (IF m <= 2 THEN 1 ELSE 0)
  IN  [year |-> y, month |-> m, day |-> d]

\* new Date(year, monthIndex, day): month and day overflow into the
\* neighbouring months and years, as the constructor does
NewDate(year, monthIndex, day) ==
  LET ym == year + monthIndex \div 12
      mn == monthIndex % 12
  IN  DaysFromCivil(ym, mn + 1, 1) + day - 1

\* the largest day number of a valid Date (8.64e15 ms)
MaxDateDays == 100000000

\* isNaN(date.getTime())
DateIsNaN(t) == t > MaxDateDays \/ t < -MaxDateDays

getFullYear(t) == CivilFromDays(t).year
\* getMonth() is zero-based
getMonth(t) == CivilFromDays(t).month - 1
getDate(t) == CivilFromDays(t).day

(***************************************************************************)
(* Errors: name and message, as the JS Error objects carry them.           *)
(***************************************************************************)
Err(name, message) == [name |-> name, message |-> message]

FormatError == Err("Error", "Date must be in MMDDYY format")
InvalidDateError == Err("Error", "Invalid date values")
ArgumentError == Err("Error", "Date must be a Date object or MMDDYY string")

(***************************************************************************)
(* DateCodec.                                                              *)
(***************************************************************************)
\* /^\d{6}$/.test(dateStr)
IsSixDigits(s) == Len(s) = 6 /\ \A i \in 1..6 : s[i] \in Digits

formatDateForUrl(t) ==
  padStart2(getMonth(t) + 1) \o padStart2(getDate(t)) \o slice2(getFullYear(t))

\* the Date parseDateString returns, or the error it throws
parseDateString(s) ==
  IF ~IsSixDigits(s)
  THEN [ok |-> FALSE, err |-> FormatError]
  ELSE LET month == parseInt2(SubSeq(s, 1, 2))
           day   == parseInt2(SubSeq(s, 3, 4))
           year  == 2000 + parseInt2(SubSeq(s, 5, 6))
           date  == NewDate(year, month - 1, day)
       IN  IF DateIsNaN(date)
           THEN [ok |-> FALSE, err |-> InvalidDateError]
           ELSE [ok |-> TRUE, date |-> date]

(***************************************************************************)
(* State.                                                                  *)
(***************************************************************************)
VARIABLES
  \* the host: typeof window !== 'undefined', a global DOMParser,
  \* a truthy window.localStorage
  hasWindow, hasDOMParser, lsPresent,
  \* window.localStorage: key -> raw item
  localStorage,
  \* this.cache (Map: dateStr -> object reference), the objects allocated
  \* so far, this.proxyCandidates.length
  cache, heap, nRoutes,
  \* the getReadings call in progress: its position, its argument, its
  \* locals dateStr and date (dateVal), what it returned or threw
  pc, arg, dateStr, dateVal, result,
  \* the closure of one fetchViaProxies call: who awaits it, its deadline,
  \* settled, failures, the returned Promise, globalTimer, each route's
  \* callback position and each controller's signal
  raceCaller, totalTimeoutMs, settled, failures, promise, globalTimer,
  route, aborted,
  \* what the caller and the network have seen: calls made, completed
  \* getReadings calls, requests of the current call, storage exceptions
  \* thrown during the current call
  calls, history, cur,
  \* the argument and result of a pure function under test
  fnIn, fnOut

envVars == <<hasWindow, hasDOMParser, lsPresent>>
cacheVars == <<localStorage, cache, heap>>
callVars == <<pc, arg, dateStr, dateVal, result>>
raceVars == <<raceCaller, totalTimeoutMs, settled, failures, promise,
              globalTimer, route, aborted>>
fnVars == <<fnIn, fnOut>>
vars == <<envVars, cacheVars, nRoutes, callVars, raceVars, calls, history,
          cur, fnVars>>

Routes == 1..MaxRoutes

(***************************************************************************)
(* Strings of the page parser.                                             *)
(***************************************************************************)
UpperCase ==
  <<"A", "B", "C", "D", "E", "F", "G", "H", "I", "J", "K", "L", "M",
    "N", "O", "P", "Q", "R", "S", "T", "U", "V", "W", "X", "Y", "Z">>
LowerCase ==
  <<"a", "b", "c", "d", "e", "f", "g", "h", "i", "j", "k", "l", "m",
    "n", "o", "p", "q", "r", "s", "t", "u", "v", "w", "x", "y", "z">>

LowerChar(c) ==
  IF \E k \in 1..26 : UpperCase[k] = c
  THEN LowerCase[CHOOSE k \in 1..26 : UpperCase[k] = c]
  ELSE c

toLowerCase(s) == [k \in 1..Len(s) |-> LowerChar(s[k])]

\* s.includes(sub)
includes(s, sub) ==
  \E k \in 0..(Len(s) - Len(sub)) : SubSeq(s, k + 1, k + Len(sub)) = sub

RECURSIVE trimStart(_)
trimStart(s) ==
  IF s # <<>> /\ Head(s) = " " THEN trimStart(Tail(s)) ELSE s

RECURSIVE trimEnd(_)
trimEnd(s) ==
  IF s # <<>> /\ s[Len(s)] = " " THEN trimEnd(SubSeq(s, 1, Len(s) - 1)) ELSE s

trim(s) == trimEnd(trimStart(s))

(***************************************************************************)
(* PageParser.  A document is what DOMParser makes of the markup: the      *)
(* title heading, the lectionary paragraph and the verse blocks, each node *)
(* present or absent.                                                      *)
(***************************************************************************)
Absent == [present |-> FALSE, text |-> <<>>]
Node(text) == [present |-> TRUE, text |-> text]

extractTitle(doc) == IF doc.h2.present THEN trim(doc.h2.text) ELSE <<>>

\* extractSeason testing the lower-cased title
extractSeasonNoCase(title) ==
  LET t == toLowerCase(title)
  IN  IF title = <<>> THEN "Unknown"
      ELSE IF includes(t, <<"a", "d", "v", "e", "n", "t">>) THEN "Advent"
      ELSE IF includes(t, <<"c", "h", "r", "i", "s", "t", "m", "a", "s">>) THEN "Christmas"
      ELSE IF includes(t, <<"l", "e", "n", "t">>) THEN "Lent"
      ELSE IF includes(t, <<"e", "a", "s", "t", "e", "r">>) THEN "Easter"
      ELSE IF includes(t, <<"p", "e", "n", "t", "e", "c", "o", "s", "t">>) THEN "Pentecost"
      ELSE "Ordinary Time"

\* extractSeason without its first line
extractSeasonUnguarded(title) ==
  IF includes(title, <<"A", "d", "v", "e", "n", "t">>) THEN "Advent"
  ELSE IF includes(title, <<"C", "h", "r", "i", "s", "t", "m", "a", "s">>) THEN "Christmas"
  ELSE IF includes(title, <<"L", "e", "n", "t">>) THEN "Lent"
  ELSE IF includes(title, <<"E", "a", "s", "t", "e", "r">>) THEN "Easter"
  ELSE IF includes(title, <<"P", "e", "n", "t", "e", "c", "o", "s", "t">>) THEN "Pentecost"
  ELSE "Ordinary Time"

extractSeason(title) ==
  IF title = <<>> THEN "Unknown"
  ELSE IF includes(title, <<"A", "d", "v", "e", "n", "t">>) THEN "Advent"
  ELSE IF includes(title, <<"C", "h", "r", "i", "s", "t", "m", "a", "s">>) THEN "Christmas"
  ELSE IF includes(title, <<"L", "e", "n", "t">>) THEN "Lent"
  ELSE IF includes(title, <<"E", "a", "s", "t", "e", "r">>) THEN "Easter"
  ELSE IF includes(title, <<"P", "e", "n", "t", "e", "c", "o", "s", "t">>) THEN "Pentecost"
  ELSE IF includes(title, <<"O", "r", "d", "i", "n", "a", "r", "y", " ", "T", "i", "m", "e">>) THEN "Ordinary Time"
  ELSE "Ordinary Time"

SolemnityKeywords ==
  { <<"s", "o", "l", "e", "m", "n", "i", "t", "y">>,
    <<"c", "h", "r", "i", "s", "t", "m", "a", "s">>,
    <<"e", "p", "i", "p", "h", "a", "n", "y">>,
    <<"e", "a", "s", "t", "e", "r">>,
    <<"p", "e", "n", "t", "e", "c", "o", "s", "t">>,
    <<"a", "s", "c", "e", "n", "s", "i", "o", "n">>,
    <<"a", "s", "s", "u", "m", "p", "t", "i", "o", "n">>,
    <<"a", "l", "l", " ", "s", "a", "i", "n", "t", "s">>,
    <<"i", "m", "m", "a", "c", "u", "l", "a", "t", "e", " ", "c", "o", "n", "c", "e", "p", "t", "i", "o", "n">> }

\* the feast test made before the solemnity test
extractLiturgicalRankFeastFirst(title) ==
  LET titleLower == toLowerCase(title)
  IN  IF title = <<>> THEN "Ferial"
      ELSE IF includes(titleLower, <<"f", "e", "a", "s", "t">>) THEN "Feast"
      ELSE IF \E k \in SolemnityKeywords : includes(titleLower, k)
      THEN "Solemnity"
      ELSE IF includes(titleLower, <<"m", "e", "m", "o", "r", "i", "a", "l">>) THEN "Memorial"
      ELSE IF \/ includes(titleLower, <<"s", "t", ".", " ">>)
              \/ includes(titleLower, <<"s", "a", "i", "n", "t", " ">>)
      THEN "Memorial"
      ELSE "Ferial"

extractLiturgicalRank(title) ==
  LET titleLower == toLowerCase(title)
  IN  IF title = <<>> THEN "Ferial"
      ELSE IF \E k \in SolemnityKeywords : includes(titleLower, k)
      THEN "Solemnity"
      ELSE IF includes(titleLower, <<"f", "e", "a", "s", "t">>) THEN "Feast"
      ELSE IF includes(titleLower, <<"m", "e", "m", "o", "r", "i", "a", "l">>) THEN "Memorial"
      ELSE IF \/ includes(titleLower, <<"s", "t", ".", " ">>)
              \/ includes(titleLower, <<"s", "a", "i", "n", "t", " ">>)
      THEN "Memorial"
      ELSE "Ferial"

\* the digits after "Lectionary:" in the lectionary paragraph; the paragraph
\* is modelled by the number it carries (<<>> when it carries none)
extractLectionary(doc) == IF doc.lect.present THEN doc.lect.text ELSE <<>>

\* null (a record with ok FALSE) unless the block has a name and a body
parseReadingBlock(block) ==
  IF ~block.name.present \/ ~block.body.present
  THEN [ok |-> FALSE]
  ELSE [ok |-> TRUE,
        reading |-> [name |-> trim(block.name.text),
                     reference |-> IF block.link.present
                                   THEN trim(block.link.text) ELSE <<>>,
                     referenceUrl |-> IF block.link.present
                                      THEN block.link.href ELSE <<>>,
                     text |-> block.body.text]]

\* the readings put in front of the list instead of pushed onto its end
RECURSIVE collectReadingsFront(_)
collectReadingsFront(blocks) ==
  IF blocks = <<>> THEN <<>>
  ELSE LET r == parseReadingBlock(Head(blocks))
       IN  collectReadingsFront(Tail(blocks))
             \o (IF r.ok THEN <<r.reading>> ELSE <<>>)

RECURSIVE collectReadings(_)
collectReadings(blocks) ==
  IF blocks = <<>> THEN <<>>
  ELSE LET r == parseReadingBlock(Head(blocks))
       IN  (IF r.ok THEN <<r.reading>> ELSE <<>>)
             \o collectReadings(Tail(blocks))

\* the record parseReadings builds from a document and a Date
parseReadings(doc, date) ==
  LET title == extractTitle(doc)
  IN  [date |-> CivilFromDays(date),
       title |-> title,
       season |-> extractSeason(title),
       rank |-> extractLiturgicalRank(title),
       lectionary |-> extractLectionary(doc),
       readings |-> collectReadings(doc.blocks)]

\* new DOMParser() where there is no DOMParser
NoDOMParserError == Err("ReferenceError", "DOMParser is not defined")

(***************************************************************************)
(* The upstream site: the page it serves for a date key.                   *)
(***************************************************************************)
Block(name, ref, body) ==
  [name |-> name,
   link |-> [present |-> ref # <<>>, text |-> ref, href |-> ref],
   body |-> body]

AdventPage ==
  [h2 |-> Node(<<" ", "A", "d", "v", "e", "n", "t", " ">>),
   lect |-> Node(<<"1", "8", "7">>),
   blocks |-> << Block(Node(<<"G", "o", "s", "p", "e", "l">>), <<"M", "t">>, Node(<<"t", "e", "x", "t">>)),
                 Block(Absent, <<>>, Absent) >>]

BarePage == [h2 |-> Absent, lect |-> Absent, blocks |-> <<>>]

Page(key) == IF key = <<"1", "2", "1", "5", "2", "5">> THEN AdventPage ELSE BarePage

\* parser.parseFromString(html, 'text/html') of a body: its document
ParseFromString(html) == Page(html.url)


(***************************************************************************)
(* Values of the service.                                                  *)
(***************************************************************************)
\* arguments of getReadings
StringArg(s) == [t |-> "string", s |-> s, time |-> 0]
DateArg(time) == [t |-> "Date", s |-> <<>>, time |-> time]
OtherArg == [t |-> "other", s |-> <<>>, time |-> 0]
NoArg == [t |-> "none", s |-> <<>>, time |-> 0]

NoErr == Err("", "")
NoRef == 0

\* what a call returned (a reference to an object) or threw
NoResult == [kind |-> "none", ref |-> NoRef, err |-> NoErr]
Returned(ref) == [kind |-> "value", ref |-> ref, err |-> NoErr]
Thrown(e) == [kind |-> "error", ref |-> NoRef, err |-> e]

EmptyMap == [k \in {} |-> NoRef]

\* lines 62-69 of getReadings: dateStr and date, or the error thrown
Normalize(a) ==
  IF a.t = "string"
  THEN LET p == parseDateString(a.s)
       IN  IF p.ok
           THEN [ok |-> TRUE, dateStr |-> a.s, date |-> p.date, err |-> NoErr]
           ELSE [ok |-> FALSE, dateStr |-> a.s, date |-> 0, err |-> p.err]
  ELSE IF a.t = "Date"
  THEN [ok |-> TRUE, dateStr |-> formatDateForUrl(a.time), date |-> a.time,
        err |-> NoErr]
  ELSE [ok |-> FALSE, dateStr |-> <<>>, date |-> 0, err |-> ArgumentError]

\* errors of fetchUrl
HttpError == Err("Error", "HTTP 404")
NetworkError == Err("TypeError", "Failed to fetch")

\* the body a direct fetch delivers
DirectBody == [via |-> 0, url |-> dateStr]

TimedOutMessage ==
  "Network request timed out (CORS proxies may be slow or unavailable)"
UnableMessage == "Unable to fetch readings (CORS or network error)"

\* lines 102-105: the error getReadings throws for a failed fallback
ConsolidatedError(proxyError) ==
  Err("Error", IF proxyError.name = "AbortError"
               THEN TimedOutMessage ELSE UnableMessage)

\* line 93: the fallback is for hosts with a window
FallsBack(window) == window

(***************************************************************************)
(* The durable tier: window.localStorage.                                  *)
(***************************************************************************)
StorageKey(key) == <<"CathReadings:">> \o key

\* raw items: JSON text of a value, or text JSON.parse throws on
JSONstringify(value) == [kind |-> "json", value |-> value]
CorruptItem == [kind |-> "corrupt", value |-> <<>>]
JSONparse(raw) == raw.value

\* what an exception inside a storage helper hits: nothing, the probe of
\* storageAvailable, or the getItem / setItem / JSON call after it
StorageFaults == {"none", "probe", "op"}

storageAvailable(fault) == hasWindow /\ lsPresent /\ fault # "probe"

\* an exception was thrown (and caught) inside a storage helper
StorageThrew(fault, key, reading) ==
  /\ hasWindow /\ lsPresent
  /\ \/ fault # "none"
     \/ /\ reading
        /\ fault = "none"
        /\ StorageKey(key) \in DOMAIN localStorage
        /\ localStorage[StorageKey(key)].kind = "corrupt"

\* readFromPersistentCache: the parsed value, or null
readFromPersistentCache(key, fault) ==
  IF ~storageAvailable(fault) THEN [hit |-> FALSE, value |-> <<>>]
  ELSE IF fault = "op" THEN [hit |-> FALSE, value |-> <<>>]
  ELSE IF StorageKey(key) \notin DOMAIN localStorage
  THEN [hit |-> FALSE, value |-> <<>>]
  ELSE IF localStorage[StorageKey(key)].kind = "corrupt"
  THEN [hit |-> FALSE, value |-> <<>>]
  ELSE [hit |-> TRUE, value |-> JSONparse(localStorage[StorageKey(key)])]

\* setItem fails: the quota is exceeded, or the value cannot be serialized
QuotaError == Err("QuotaExceededError", "The quota has been exceeded")

\* writeToPersistentCache without its try block: setItem's exception escapes
writeUnguarded(key, value, fault) ==
  IF ~storageAvailable(fault)
  THEN [store |-> localStorage, threw |-> FALSE, err |-> NoErr]
  ELSE IF fault = "op"
  THEN [store |-> localStorage, threw |-> TRUE, err |-> QuotaError]
  ELSE [store |-> (StorageKey(key) :> JSONstringify(value)) @@ localStorage,
        threw |-> FALSE, err |-> NoErr]

\* writeToPersistentCache: the store afterwards, and whether an exception
\* escapes the helper (none does: both try blocks swallow)
writeToPersistentCache(key, value, fault) ==
  IF ~storageAvailable(fault) \/ fault = "op"
  THEN [store |-> localStorage, threw |-> FALSE, err |-> NoErr]
  ELSE [store |-> (StorageKey(key) :> JSONstringify(value)) @@ localStorage,
        threw |-> FALSE, err |-> NoErr]

(***************************************************************************)
(* Promise: settles once; a later resolve or reject is ignored.            *)
(***************************************************************************)
NoPromise == [state |-> "none"]
Pending == [state |-> "pending"]
Fulfilled(v) == [state |-> "fulfilled", value |-> v]
Rejected(e) == [state |-> "rejected", reason |-> e]

IsSettled(p) == p.state \in {"fulfilled", "rejected"}

\* a promise that a later resolve or reject overwrites
SettleAgain(p, outcome) == outcome

\* resolve(v) / reject(e) on the Promise of fetchViaProxies
SettlePromise(p, outcome) == IF p.state = "pending" THEN outcome ELSE p

(***************************************************************************)
(* fetchViaProxies.                                                        *)
(***************************************************************************)
RaceTimeoutError == Err("Error", "Network request timed out across proxies")
AllProxiesFailedError == Err("Error", "All CORS proxies failed or were blocked")

\* the body route i delivers: the markup behind the url, by way of route i
RouteBody(i) == [via |-> i, url |-> dateStr]

\* the stagger offset of route i (proxyUrls index i - 1)
StartOffset(i) == (i - 1) * StaggerMs

\* the guard of the timer callback inverted
TimerRejectsInverted(s) == s

\* the global timer's callback rejects: if (!settled)
TimerRejects(s) == ~s

\* the failure count compared one short
CatchRejectsEarly(f, n, s) == f >= n - 1 /\ ~s

\* the catch block rejects: failures === proxyUrls.length && !settled
CatchRejects(f, n, s) == f = n /\ ~s

\* a timer that is never cleared
clearTimeoutForgotten(t) == t

\* clearTimeout(globalTimer)
clearTimeout(t) == IF t = "armed" THEN "cleared" ELSE t

\* the closure a fetchViaProxies(url, ms) call creates: controllers, settled,
\* the Promise, failures, the global timer and one start timer per route
StartRace(caller, ms) ==
  /\ raceCaller' = caller
  /\ totalTimeoutMs' = ms
  /\ settled' = FALSE
  /\ failures' = 0
  /\ promise' = Pending
  /\ globalTimer' = "armed"
  /\ route' = [i \in Routes |-> IF i <= nRoutes THEN "scheduled" ELSE "unused"]
  /\ aborted' = [i \in Routes |-> FALSE]

\* a continuation of getReadings is queued as a microtask: it runs before
\* any timer or network callback
MicrotaskPending == pc = "race" /\ IsSettled(promise)

RaceIdle ==
  /\ raceCaller = "none" /\ totalTimeoutMs = 0 /\ settled = FALSE
  /\ failures = 0 /\ promise = NoPromise /\ globalTimer = "none"
  /\ route = [i \in Routes |-> "unused"]
  /\ aborted = [i \in Routes |-> FALSE]

\* what no callback of the race touches
RaceFrame ==
  UNCHANGED <<envVars, cacheVars, nRoutes, callVars, calls, history, fnVars>>

\* the closure of a race whose callbacks have all run is garbage
DropRace ==
  /\ raceCaller' = "none" /\ totalTimeoutMs' = 0 /\ settled' = FALSE
  /\ failures' = 0 /\ promise' = NoPromise /\ globalTimer' = "none"
  /\ route' = [i \in Routes |-> "unused"]
  /\ aborted' = [i \in Routes |-> FALSE]

\* every callback of the race has run: no start timer, request or deadline
\* is outstanding
RaceQuiescent ==
  /\ globalTimer # "armed"
  /\ \A i \in Routes : route[i] \notin {"scheduled", "fetching", "reading"}

\* the catch block of route i's callback
RouteCatch(i, status) ==
  /\ route' = [route EXCEPT ![i] = status]
  /\ failures' = failures + 1
  /\ IF CatchRejects(failures + 1, nRoutes, settled)
     THEN /\ globalTimer' = clearTimeout(globalTimer)
          /\ promise' = SettlePromise(promise, Rejected(AllProxiesFailedError))
     ELSE UNCHANGED <<globalTimer, promise>>
  /\ UNCHANGED <<raceCaller, totalTimeoutMs, settled, aborted>>

\* the global timer fires once every start timer due before it has fired
GlobalTimerFires ==
  /\ globalTimer = "armed"
  /\ ~MicrotaskPending
  /\ \A i \in Routes :
       route[i] = "scheduled" => StartOffset(i) >= totalTimeoutMs
  /\ globalTimer' = "fired"
  /\ IF TimerRejects(settled)
     THEN /\ aborted' = [i \in Routes |-> IF i <= nRoutes THEN TRUE ELSE aborted[i]]
          /\ promise' = SettlePromise(promise, Rejected(RaceTimeoutError))
     ELSE UNCHANGED <<aborted, promise>>
  /\ UNCHANGED <<raceCaller, totalTimeoutMs, settled, failures, route, cur>>
  /\ RaceFrame

\* route i's start timer fires: if (settled) return; else fetch(purl, signal).
\* fetch on a signal that is already aborted rejects at once, and the catch
\* block runs before any other callback.
RouteStarts(i) ==
  /\ route[i] = "scheduled"
  /\ ~MicrotaskPending
  /\ \A j \in Routes : j < i => route[j] # "scheduled"
  /\ StartOffset(i) < totalTimeoutMs \/ globalTimer # "armed"
  /\ RaceFrame
  /\ IF settled
     THEN /\ route' = [route EXCEPT ![i] = "skipped"]
          /\ UNCHANGED <<raceCaller, totalTimeoutMs, settled, failures,
                         promise, globalTimer, aborted, cur>>
     ELSE IF aborted[i]
     THEN RouteCatch(i, "failed") /\ UNCHANGED cur
     ELSE /\ route' = [route EXCEPT ![i] = "fetching"]
          /\ cur' = [cur EXCEPT !.proxy = @ + 1]
          /\ UNCHANGED <<raceCaller, totalTimeoutMs, settled, failures,
                         promise, globalTimer, aborted>>

\* fetch of route i settles: a 2xx response, a non-2xx response (throw), or a
\* rejection (transport error, abort).  Cancellation is best effort: a
\* response may still win against an abort() made while it was in flight.
RouteFetchSettles(i, outcome) ==
  /\ route[i] = "fetching"
  /\ ~MicrotaskPending
  /\ UNCHANGED cur
  /\ RaceFrame
  /\ IF outcome = "ok"
     THEN /\ route' = [route EXCEPT ![i] = "reading"]
          /\ UNCHANGED <<raceCaller, totalTimeoutMs, settled, failures,
                         promise, globalTimer, aborted>>
     ELSE RouteCatch(i, "failed")

\* the winner aborting every controller, its own included
RouteTextSettlesAbortAll(i, ok) ==
  /\ route[i] = "reading"
  /\ ~MicrotaskPending
  /\ UNCHANGED cur
  /\ RaceFrame
  /\ IF ~ok
     THEN RouteCatch(i, "failed")
     ELSE IF settled
     THEN /\ route' = [route EXCEPT ![i] = "late"]
          /\ UNCHANGED <<raceCaller, totalTimeoutMs, settled, failures,
                         promise, globalTimer, aborted>>
     ELSE /\ route' = [route EXCEPT ![i] = "won"]
          /\ settled' = TRUE
          /\ globalTimer' = clearTimeout(globalTimer)
          /\ aborted' = [j \in Routes |->
                           IF j <= nRoutes THEN TRUE ELSE aborted[j]]
          /\ promise' = SettlePromise(promise, Fulfilled(RouteBody(i)))
          /\ UNCHANGED <<raceCaller, totalTimeoutMs, failures>>

\* res.text() of route i settles
RouteTextSettles(i, ok) ==
  /\ route[i] = "reading"
  /\ ~MicrotaskPending
  /\ UNCHANGED cur
  /\ RaceFrame
  /\ IF ~ok
     THEN RouteCatch(i, "failed")
     ELSE IF settled
     THEN /\ route' = [route EXCEPT ![i] = "late"]
          /\ UNCHANGED <<raceCaller, totalTimeoutMs, settled, failures,
                         promise, globalTimer, aborted>>
     ELSE /\ route' = [route EXCEPT ![i] = "won"]
          /\ settled' = TRUE
          /\ globalTimer' = clearTimeout(globalTimer)
          /\ aborted' = [j \in Routes |->
                           IF j <= nRoutes /\ j # i THEN TRUE ELSE aborted[j]]
          /\ promise' = SettlePromise(promise, Fulfilled(RouteBody(i)))
          /\ UNCHANGED <<raceCaller, totalTimeoutMs, failures>>

(***************************************************************************)
(* getReadings.                                                            *)
(***************************************************************************)
\* of the call in progress: fetchUrl requests and proxy requests made, whether
\* a storage helper caught an exception, the error fetchUrl threw (while it
\* is being propagated), and where the value or body came from
NewCur == [direct |-> 0, proxy |-> 0, lsThrew |-> FALSE, directErr |-> NoErr,
           from |-> "none"]

\* the call in progress ends: what the caller sees of it, then and later
Complete(key, res, c, seen) ==
  /\ pc' = "done"
  /\ result' = res
  /\ cur' = c
  /\ history' = Append(history,
       [key |-> key, kind |-> res.kind, ref |-> res.ref, seen |-> seen,
        direct |-> c.direct])

\* cache.set under the key of the durable tier
cacheSetPrefixed(map, key, ref) == (StorageKey(key) :> ref) @@ map

\* cache.set left out
cacheSetNothing(map, key, ref) == map

\* this.cache.set(key, ref)
cacheSet(map, key, ref) == (key :> ref) @@ map

\* the error wrapped as the fallback wraps it
RethrowWrapped(error) == Err("Error", UnableMessage)

\* line 108: throw error
Rethrow(error) == error

\* the synchronous part of getReadings(a), up to await this.fetchUrl(url).
\* The caller makes its calls one after another, each once the callbacks of
\* the one before have run.
GetReadings(a) ==
  /\ pc \in {"idle", "done"}
  /\ RaceQuiescent
  /\ calls < MaxCalls
  /\ calls' = calls + 1
  /\ DropRace
  /\ arg' = a
  /\ \E n \in {Normalize(a)} :
       /\ dateStr' = n.dateStr
       /\ dateVal' = n.date
       /\ IF ~n.ok
          THEN /\ Complete(n.dateStr, Thrown(n.err), NewCur, <<>>)
               /\ UNCHANGED cacheVars
          ELSE IF n.dateStr \in DOMAIN cache
          THEN /\ Complete(n.dateStr, Returned(cache[n.dateStr]),
                           [NewCur EXCEPT !.from = "memory"],
                           heap[cache[n.dateStr]])
               /\ UNCHANGED cacheVars
          ELSE \E fault \in StorageFaults :
            \E persisted \in {readFromPersistentCache(n.dateStr, fault)} :
            \E c \in {[NewCur EXCEPT
                         !.lsThrew = StorageThrew(fault, n.dateStr, TRUE)]} :
              IF persisted.hit
              THEN /\ heap' = Append(heap, persisted.value)
                   /\ cache' = cacheSet(cache, n.dateStr, Len(heap) + 1)
                   /\ Complete(n.dateStr, Returned(Len(heap) + 1),
                               [c EXCEPT !.from = "durable"], persisted.value)
                   /\ UNCHANGED localStorage
              ELSE /\ pc' = "direct"
                   /\ result' = NoResult
                   /\ cur' = [c EXCEPT !.direct = 1]
                   /\ UNCHANGED <<cacheVars, history>>
  /\ UNCHANGED <<envVars, nRoutes, fnVars>>

\* the catch block of line 91, entered with the error of the try block; the
\* fallback drops that error
CatchDirect(error, c) ==
  IF FallsBack(hasWindow)
  THEN /\ StartRace("getReadings", DefaultTimeoutMs)
       /\ pc' = "race"
       /\ cur' = [c EXCEPT !.directErr = NoErr]
       /\ UNCHANGED <<cacheVars, result, history>>
  ELSE /\ Complete(dateStr, Thrown(Rethrow(error)), c, <<>>)
       /\ UNCHANGED <<cacheVars, raceVars>>

\* fetch(url) of fetchUrl settles: 2xx, non-2xx (throw), or a rejection
DirectFetchSettles(outcome) ==
  /\ pc = "direct"
  /\ IF outcome = "ok"
     THEN /\ pc' = "directText"
          /\ UNCHANGED <<cacheVars, raceVars, result, history, cur>>
     ELSE \E e \in {IF outcome = "http" THEN HttpError ELSE NetworkError} :
            CatchDirect(e, [cur EXCEPT !.directErr = e])
  /\ UNCHANGED <<envVars, nRoutes, arg, dateStr, dateVal, calls, fnVars>>

\* response.text() of fetchUrl settles; on success lines 88-90 run: parse the
\* body, store the result, return it
DirectTextSettles(ok) ==
  /\ pc = "directText"
  /\ IF ~ok
     THEN CatchDirect(NetworkError, [cur EXCEPT !.directErr = NetworkError])
     ELSE \E c \in {[cur EXCEPT !.from = "direct"]} :
          IF ~hasDOMParser
          THEN CatchDirect(NoDOMParserError, c)
          ELSE \E value \in {parseReadings(ParseFromString(DirectBody), dateVal)} :
                 /\ heap' = Append(heap, value)
                 /\ cache' = cacheSet(cache, dateStr, Len(heap) + 1)
                 /\ Complete(dateStr, Returned(Len(heap) + 1), c, value)
                 /\ UNCHANGED <<localStorage, raceVars>>
  /\ UNCHANGED <<envVars, nRoutes, arg, dateStr, dateVal, calls, fnVars>>

\* the in-memory entry made before the body is parsed
RaceReturnsStoreFirst ==
  /\ pc = "race"
  /\ IsSettled(promise)
  /\ IF promise.state = "rejected"
     THEN /\ Complete(dateStr, Thrown(ConsolidatedError(promise.reason)), cur,
                      <<>>)
          /\ UNCHANGED cacheVars
     ELSE IF ~hasDOMParser
     THEN /\ heap' = Append(heap, [title |-> <<>>])
          /\ cache' = cacheSet(cache, dateStr, Len(heap) + 1)
          /\ Complete(dateStr, Thrown(ConsolidatedError(NoDOMParserError)),
                      [cur EXCEPT !.from = "race"], <<>>)
          /\ UNCHANGED localStorage
     ELSE \E fault \in StorageFaults :
          \E value \in {parseReadings(ParseFromString(promise.value), dateVal)} :
          \E w \in {writeToPersistentCache(dateStr, value, fault)} :
          \E c \in {[cur EXCEPT
                       !.lsThrew = @ \/ StorageThrew(fault, dateStr, FALSE),
                       !.from = "race"]} :
            /\ heap' = Append(heap, value)
            /\ cache' = cacheSet(cache, dateStr, Len(heap) + 1)
            /\ localStorage' = w.store
            /\ IF w.threw
               THEN Complete(dateStr, Thrown(ConsolidatedError(w.err)), c, <<>>)
               ELSE Complete(dateStr, Returned(Len(heap) + 1), c, value)
  /\ UNCHANGED <<envVars, nRoutes, arg, dateStr, dateVal, calls, raceVars, fnVars>>

\* getReadings resumes after await this.fetchViaProxies(url, this.timeout):
\* lines 96-99 on a body, lines 100-105 on a rejection or an exception
RaceReturns ==
  /\ pc = "race"
  /\ IsSettled(promise)
  /\ IF promise.state = "rejected"
     THEN /\ Complete(dateStr, Thrown(ConsolidatedError(promise.reason)), cur,
                      <<>>)
          /\ UNCHANGED cacheVars
     ELSE IF ~hasDOMParser
     THEN /\ Complete(dateStr, Thrown(ConsolidatedError(NoDOMParserError)),
                      [cur EXCEPT !.from = "race"], <<>>)
          /\ UNCHANGED cacheVars
     ELSE \E fault \in StorageFaults :
          \E value \in {parseReadings(ParseFromString(promise.value), dateVal)} :
          \E w \in {writeToPersistentCache(dateStr, value, fault)} :
          \E c \in {[cur EXCEPT
                       !.lsThrew = @ \/ StorageThrew(fault, dateStr, FALSE),
                       !.from = "race"]} :
            /\ heap' = Append(heap, value)
            /\ cache' = cacheSet(cache, dateStr, Len(heap) + 1)
            /\ localStorage' = w.store
            /\ IF w.threw
               THEN Complete(dateStr, Thrown(ConsolidatedError(w.err)), c, <<>>)
               ELSE Complete(dateStr, Returned(Len(heap) + 1), c, value)
  /\ UNCHANGED <<envVars, nRoutes, arg, dateStr, dateVal, calls, raceVars, fnVars>>

\* the caller changes an object getReadings returned to it
Tampered == <<"t", "a", "m", "p", "e", "r", "e", "d">>

CallerMutates(ref) ==
  /\ pc = "done"
  /\ RaceQuiescent
  /\ ref \in 1..Len(heap)
  /\ heap[ref].title # Tampered
  /\ heap' = [heap EXCEPT ![ref].title = Tampered]
  /\ UNCHANGED <<envVars, localStorage, cache, nRoutes, callVars, raceVars,
                 calls, history, cur, fnVars>>

\* a caller calls fetchViaProxies(url, ms) itself and awaits the Promise
FetchViaProxies(ms) ==
  /\ pc = "idle"
  /\ calls < MaxCalls
  /\ promise = NoPromise \/ IsSettled(promise)
  /\ RaceQuiescent
  /\ calls' = calls + 1
  /\ StartRace("caller", ms)
  /\ cur' = NewCur
  /\ UNCHANGED <<envVars, cacheVars, nRoutes, callVars, history, fnVars>>

(***************************************************************************)
(* Specifications.                                                         *)
(***************************************************************************)
K121525 == <<"1", "2", "1", "5", "2", "5">>
K023099 == <<"0", "2", "3", "0", "9", "9">>
K12152 == <<"1", "2", "1", "5", "2">>

\* the arguments getReadings is called with
Args ==
  { StringArg(K121525), StringArg(K023099), StringArg(K12152),
    DateArg(DaysFromCivil(2025, 12, 15)), OtherArg }

\* what an earlier session may have left in localStorage
StoredBefore ==
  { EmptyMap,
    StorageKey(K121525) :>
      JSONstringify(parseReadings(AdventPage, DaysFromCivil(2025, 12, 15))),
    StorageKey(K121525) :> CorruptItem }

NoOut == [applied |-> FALSE]

FnIdle == fnIn = <<>> /\ fnOut = NoOut

\* a new CathReadings() on some host
InitService ==
  /\ hasWindow \in BOOLEAN
  /\ hasDOMParser \in BOOLEAN
  /\ lsPresent \in IF hasWindow THEN BOOLEAN ELSE {FALSE}
  /\ localStorage \in IF lsPresent THEN StoredBefore ELSE {EmptyMap}
  /\ cache = EmptyMap
  /\ heap = <<>>
  /\ pc = "idle" /\ arg = NoArg /\ dateStr = <<>> /\ dateVal = 0
  /\ result = NoResult
  /\ RaceIdle
  /\ calls = 0 /\ history = <<>> /\ cur = NewCur

Init ==
  /\ InitService
  /\ nRoutes = MinRoutes
  /\ FnIdle

RaceNext ==
  \/ GlobalTimerFires
  \/ \E i \in Routes : RouteStarts(i)
  \/ \E i \in Routes, outcome \in {"ok", "http", "network"} :
       RouteFetchSettles(i, outcome)
  \/ \E i \in Routes, ok \in BOOLEAN : RouteTextSettles(i, ok)

Next ==
  \/ \E a \in Args : GetReadings(a)
  \/ \E outcome \in {"ok", "http", "network"} : DirectFetchSettles(outcome)
  \/ \E ok \in BOOLEAN : DirectTextSettles(ok)
  \/ RaceReturns
  \/ \E ref \in 1..MaxCalls : CallerMutates(ref)
  \/ RaceNext

Spec == Init /\ [][Next]_vars

\* what the event loop guarantees: a timer that is due fires and a
\* continuation that is queued runs.  The network owes no response, so no
\* fairness is stated for the settling of a fetch or of a body read.
EventLoopFairness ==
  /\ WF_vars(GlobalTimerFires)
  /\ \A i \in Routes : WF_vars(RouteStarts(i))
  /\ WF_vars(RaceReturns)

SpecLive == Init /\ [][Next]_vars /\ EventLoopFairness

\* fetchViaProxies called on its own, with a deadline before or after the
\* last route's start
InitRace ==
  /\ hasWindow = TRUE /\ hasDOMParser = TRUE /\ lsPresent = FALSE
  /\ localStorage = EmptyMap
  /\ cache = EmptyMap
  /\ heap = <<>>
  /\ pc = "idle" /\ arg = NoArg /\ dateStr = <<>> /\ dateVal = 0
  /\ result = NoResult
  /\ RaceIdle
  /\ calls = 0 /\ history = <<>> /\ cur = NewCur
  /\ nRoutes \in MinRoutes..MaxRoutes
  /\ FnIdle

NextRace ==
  \/ \E ms \in {ShortTimeoutMs, DefaultTimeoutMs} : FetchViaProxies(ms)
  \/ RaceNext

SpecRace == InitRace /\ [][NextRace]_vars

\* parseDateString applied to every string of a small alphabet up to
\* MaxKeyLen characters, and to the strings of the documentation
DateChars == {"0", "2", "9", "x"}
K999999 == <<"9", "9", "9", "9", "9", "9">>

DateStrings ==
  UNION {[1..n -> DateChars] : n \in 0..MaxKeyLen}
    \cup {K121525, K023099, K12152, K999999}

InitDate ==
  /\ hasWindow = FALSE /\ hasDOMParser = FALSE /\ lsPresent = FALSE
  /\ localStorage = EmptyMap
  /\ cache = EmptyMap
  /\ heap = <<>>
  /\ pc = "idle" /\ arg = NoArg /\ dateStr = <<>> /\ dateVal = 0
  /\ result = NoResult
  /\ RaceIdle
  /\ calls = 0 /\ history = <<>> /\ cur = NewCur
  /\ nRoutes = MinRoutes
  /\ fnIn \in DateStrings
  /\ fnOut = NoOut

Decode ==
  /\ ~fnOut.applied
  /\ fnOut' = [applied |-> TRUE, out |-> parseDateString(fnIn)]
  /\ UNCHANGED <<envVars, cacheVars, nRoutes, callVars, raceVars, calls,
                 history, cur, fnIn>>

\* formatDateForUrl applied to the Date parseDateString returned
Encode ==
  /\ fnOut.applied
  /\ DOMAIN fnOut = {"applied", "out"}
  /\ fnOut.out.ok
  /\ fnOut' = [applied |-> TRUE, out |-> fnOut.out,
               key |-> formatDateForUrl(fnOut.out.date)]
  /\ UNCHANGED <<envVars, cacheVars, nRoutes, callVars, raceVars, calls,
                 history, cur, fnIn>>

\* parseDateString applied to the key formatDateForUrl produced
DecodeAgain ==
  /\ DOMAIN fnOut = {"applied", "out", "key"}
  /\ fnOut' = [applied |-> TRUE, out |-> fnOut.out, key |-> fnOut.key,
               again |-> parseDateString(fnOut.key)]
  /\ UNCHANGED <<envVars, cacheVars, nRoutes, callVars, raceVars, calls,
                 history, cur, fnIn>>

NextDate == Decode \/ Encode \/ DecodeAgain

SpecDate == InitDate /\ [][NextDate]_vars

\* formatDateForUrl applied to two dates of the years 2000-2099: months, days
\* and years whose digits could be confused with one another
EncodeYears == {2000, 2001, 2010, 2011, 2099}
EncodeMonths == {1, 2, 10, 11, 12}
EncodeDays == {1, 2, 10, 11, 12, 21, 28}

EncodeDates ==
  {DaysFromCivil(y, m, d) : y \in EncodeYears, m \in EncodeMonths, d \in EncodeDays}

InitEncode ==
  /\ hasWindow = FALSE /\ hasDOMParser = FALSE /\ lsPresent = FALSE
  /\ localStorage = EmptyMap
  /\ cache = EmptyMap
  /\ heap = <<>>
  /\ pc = "idle" /\ arg = NoArg /\ dateStr = <<>> /\ dateVal = 0
  /\ result = NoResult
  /\ RaceIdle
  /\ calls = 0 /\ history = <<>> /\ cur = NewCur
  /\ nRoutes = MinRoutes
  /\ fnIn \in EncodeDates \X EncodeDates
  /\ fnOut = NoOut

EncodeBoth ==
  /\ ~fnOut.applied
  /\ fnOut' = [applied |-> TRUE,
               keys |-> <<formatDateForUrl(fnIn[1]), formatDateForUrl(fnIn[2])>>]
  /\ UNCHANGED <<envVars, cacheVars, nRoutes, callVars, raceVars, calls,
                 history, cur, fnIn>>

NextEncode == EncodeBoth

SpecEncode == InitEncode /\ [][NextEncode]_vars

\* parseReadings applied to documents: headings made of up to MaxWords words
\* of the titles the site uses, and up to MaxBlocks verse blocks, each with or
\* without its name, its reference link and its body
TitleWords ==
  { <<"A", "d", "v", "e", "n", "t">>,
    <<"a", "d", "v", "e", "n", "t">>,
    <<"C", "h", "r", "i", "s", "t", "m", "a", "s">>,
    <<"L", "e", "n", "t">>,
    <<"E", "x", "c", "e", "l", "l", "e", "n", "t">>,
    <<"E", "a", "s", "t", "e", "r">>,
    <<"P", "e", "n", "t", "e", "c", "o", "s", "t">>,
    <<"O", "r", "d", "i", "n", "a", "r", "y", " ", "T", "i", "m", "e">>,
    <<"o", "r", "d", "i", "n", "a", "r", "y", " ", "t", "i", "m", "e">>,
    <<"S", "o", "l", "e", "m", "n", "i", "t", "y">>,
    <<"S", "O", "L", "E", "M", "N", "I", "T", "Y">>,
    <<"E", "p", "i", "p", "h", "a", "n", "y">>,
    <<"A", "s", "c", "e", "n", "s", "i", "o", "n">>,
    <<"A", "s", "s", "u", "m", "p", "t", "i", "o", "n">>,
    <<"A", "l", "l", " ", "S", "a", "i", "n", "t", "s">>,
    <<"I", "m", "m", "a", "c", "u", "l", "a", "t", "e", " ", "C", "o", "n", "c", "e", "p", "t", "i", "o", "n">>,
    <<"F", "e", "a", "s", "t">>,
    <<"F", "E", "A", "S", "T">>,
    <<"M", "e", "m", "o", "r", "i", "a", "l">>,
    <<"S", "t", ".", " ">>,
    <<"S", "a", "i", "n", "t", " ">>,
    <<"M", "o", "n", "d", "a", "y">>,
    <<" ", "o", "f", " ">>,
    <<" ">> }

RECURSIVE Concat(_)
Concat(ws) == IF ws = <<>> THEN <<>> ELSE Head(ws) \o Concat(Tail(ws))

Headings == {Concat(ws) : ws \in UNION {[1..n -> TitleWords] : n \in 0..MaxWords}}

\* the i-th verse block of a page
VerseBlock(i, named, linked, bodied) ==
  [name |-> IF named THEN Node(<<" ", "R", DigitChar(i), " ">>) ELSE Absent,
   link |-> IF linked
            THEN [present |-> TRUE, text |-> <<" ", "M", "t", DigitChar(i)>>,
                  href |-> <<"/", DigitChar(i)>>]
            ELSE [present |-> FALSE, text |-> <<>>, href |-> <<>>],
   body |-> IF bodied THEN Node(<<"b", DigitChar(i)>>) ELSE Absent]

BlockLists ==
  UNION { { [i \in 1..n |-> VerseBlock(i, f[i][1], f[i][2], f[i][3])] :
              f \in [1..n -> BOOLEAN \X BOOLEAN \X BOOLEAN] } : n \in 0..MaxBlocks }

Documents ==
  {[h2 |-> Absent, lect |-> Absent, blocks |-> <<>>]}
    \cup {[h2 |-> Node(t), lect |-> Node(<<"1", "8", "7">>), blocks |-> <<>>] :
            t \in Headings}
    \cup {[h2 |-> Node(<<"L", "e", "n", "t">>), lect |-> Absent, blocks |-> bs] :
            bs \in BlockLists}

InitParse ==
  /\ hasWindow = TRUE /\ hasDOMParser = TRUE /\ lsPresent = FALSE
  /\ localStorage = EmptyMap
  /\ cache = EmptyMap
  /\ heap = <<>>
  /\ pc = "idle" /\ arg = NoArg /\ dateStr = <<>> /\ dateVal = 0
  /\ result = NoResult
  /\ RaceIdle
  /\ calls = 0 /\ history = <<>> /\ cur = NewCur
  /\ nRoutes = MinRoutes
  /\ fnIn \in Documents
  /\ fnOut = NoOut

Parse ==
  /\ ~fnOut.applied
  /\ fnOut' = [applied |-> TRUE,
               out |-> parseReadings(fnIn, DaysFromCivil(2025, 12, 15))]
  /\ UNCHANGED <<envVars, cacheVars, nRoutes, callVars, raceVars, calls,
                 history, cur, fnIn>>

NextParse == Parse

SpecParse == InitParse /\ [][NextParse]_vars
(***************************************************************************)
(* Properties of the race (SpecRace).                                      *)
(***************************************************************************)
Succeeded(i) == route[i] \in {"won", "late"}

\* route i delivers its body in this step, before the deadline has fired and
\* before any other route has delivered one
FirstSuccess(i) ==
  /\ route[i] = "reading"
  /\ Succeeded(i)'
  /\ globalTimer # "fired"
  /\ \A j \in Routes : ~Succeeded(j)

SameRace == calls' = calls

\* C1: the first route to deliver a 2xx body before the deadline fulfils the
\* Promise with exactly its body, and once fulfilled the Promise keeps that
\* body whatever failures (or further successes) follow
C1_FirstSuccessWins ==
  [][ /\ \A i \in Routes : FirstSuccess(i) => promise' = Fulfilled(RouteBody(i))
      /\ (promise.state = "fulfilled" /\ SameRace) => promise' = promise ]_vars

\* a race of at least two routes won by one route while every other failed
C1_Witness ==
  /\ nRoutes >= 2
  /\ \E i \in 1..nRoutes :
       /\ promise = Fulfilled(RouteBody(i))
       /\ route[i] = "won"
       /\ \A j \in (1..nRoutes) \ {i} : route[j] = "failed"
  /\ failures = nRoutes - 1

\* C2: a race whose callbacks have all run has settled its Promise (with a
\* body, the all-failed error or the timeout error), and a settled Promise
\* never changes
C2_OneOutcome ==
  /\ [](raceCaller # "none" /\ RaceQuiescent => IsSettled(promise))
  /\ [][(IsSettled(promise) /\ SameRace) => promise' = promise]_vars

\* the timeout was reported, and afterwards a route still delivered a body and
\* every other route failed: neither changed the outcome
C2_Witness ==
  /\ promise = Rejected(RaceTimeoutError)
  /\ RaceQuiescent
  /\ \E i \in 1..nRoutes : route[i] = "won"
  /\ failures = nRoutes - 1

AllFailed == \A i \in 1..nRoutes : route[i] = "failed"
AllHanging == \A i \in 1..nRoutes : route[i] \in {"fetching", "reading"}

\* C3: when every route has failed and the deadline has not fired the Promise
\* is rejected with the all-failed error; when the deadline fires with every
\* route still hanging it is rejected with the timeout error; a rejection is
\* never replaced by the other one
C3_FailureKinds ==
  /\ [](raceCaller # "none" /\ AllFailed /\ globalTimer # "fired"
          => promise = Rejected(AllProxiesFailedError))
  /\ [][(globalTimer = "armed" /\ globalTimer' = "fired" /\ AllHanging)
          => promise' = Rejected(RaceTimeoutError)]_vars
  /\ [][(promise.state = "rejected" /\ SameRace) => promise' = promise]_vars

\* the deadline fired on hanging routes, which then all failed: the catch
\* block's reject came after the timeout's
C3_Witness ==
  /\ promise = Rejected(RaceTimeoutError)
  /\ globalTimer = "fired"
  /\ AllFailed
  /\ failures = nRoutes

(***************************************************************************)
(* Properties of getReadings (Spec).                                       *)
(***************************************************************************)
Last == history[Len(history)]

\* an earlier call with the key of the call just completed returned a value
ReturnedBefore ==
  \E i \in 1..(Len(history) - 1) :
    history[i].key = Last.key /\ history[i].kind = "value"

\* C4: a call made after a call with the same key has returned a value is
\* answered from the in-memory map with the cached object and makes no
\* request, direct or by proxy
C4_SecondCallFromMemory ==
  (pc = "done" /\ ReturnedBefore)
    => /\ cur.from = "memory"
       /\ cur.direct = 0 /\ cur.proxy = 0
       /\ result = Returned(cache[dateStr])
       /\ raceCaller = "none"

\* two calls with one key: the first fetched the page once, the second was
\* served from memory
C4_Witness ==
  /\ pc = "done" /\ Len(history) = 2
  /\ history[1].key = history[2].key
  /\ history[1].kind = "value" /\ history[1].direct = 1
  /\ cur.from = "memory"

\* the six-digit string names a day of the calendar
ExistingDate(s) ==
  /\ parseInt2(SubSeq(s, 1, 2)) \in 1..12
  /\ parseInt2(SubSeq(s, 3, 4))
       \in 1..DaysInMonth(2000 + parseInt2(SubSeq(s, 5, 6)),
                          parseInt2(SubSeq(s, 1, 2)))

\* C5: decode rejects a string that is not six digits with the format error
\* and a six-digit string that names no calendar date with the invalid-date
\* error
C5_DecodeRejects ==
  fnOut.applied
    => /\ ~IsSixDigits(fnIn) => fnOut.out = [ok |-> FALSE, err |-> FormatError]
       /\ (IsSixDigits(fnIn) /\ ~ExistingDate(fnIn))
            => fnOut.out = [ok |-> FALSE, err |-> InvalidDateError]

\* C6: when the fallback race was rejected, getReadings throws the timed-out
\* message if the deadline elapsed and the unable-to-fetch message if every
\* route failed
C6_ConsolidatedMessage ==
  (pc = "done" /\ raceCaller = "getReadings" /\ promise.state = "rejected")
    => result = Thrown(Err("Error",
                   IF promise.reason = RaceTimeoutError
                   THEN TimedOutMessage ELSE UnableMessage))

\* C7: on a host without a window no race is ever started and no proxy
\* request made, and a call whose fetchUrl failed throws that very error
C7_NoFallbackWithoutWindow ==
  ~hasWindow
    => /\ pc # "race" /\ raceCaller = "none" /\ cur.proxy = 0
       /\ (pc = "done" /\ cur.directErr # NoErr)
            => result = Thrown(cur.directErr)

\* without a window, fetchUrl got a non-2xx response and the call threw it
C7_Witness ==
  /\ ~hasWindow /\ pc = "done"
  /\ cur.directErr = HttpError
  /\ result = Thrown(HttpError)
  /\ promise = NoPromise

\* the durable tier was there and no storage helper caught an exception
\* during the call
DurableAccepts == hasWindow /\ lsPresent /\ ~cur.lsThrew

\* C8: after a call that fetched and parsed a page, the result is in the
\* in-memory map under the date key and, when the durable tier is there and
\* accepts it, in localStorage as well
C8_StoredInBothTiers ==
  (pc = "done" /\ result.kind = "value" /\ cur.from \in {"direct", "race"})
    => /\ dateStr \in DOMAIN cache
       /\ cache[dateStr] = result.ref
       /\ DurableAccepts
            => /\ StorageKey(dateStr) \in DOMAIN localStorage
               /\ localStorage[StorageKey(dateStr)] = JSONstringify(Last.seen)

\* C9: two calls with one key that both return a value return the same
\* content, whatever the caller did to the first object in between
C9_CachedContentStable ==
  \A i, j \in 1..Len(history) :
    (i < j /\ history[i].key = history[j].key
       /\ history[i].kind = "value" /\ history[j].kind = "value")
      => history[j].seen = history[i].seen

\* C10: a call that got and parsed a body while a storage helper caught an
\* exception (probe, read or write) still returns the parsed value, and the
\* in-memory map holds it
C10_StorageFailureSwallowed ==
  (pc = "done" /\ cur.lsThrew /\ hasDOMParser /\ cur.from \in {"direct", "race"})
    => /\ result.kind = "value"
       /\ dateStr \in DOMAIN cache
       /\ cache[dateStr] = result.ref
       /\ Last.seen = parseReadings(Page(dateStr), dateVal)

\* the race delivered a body, a storage helper caught an exception, and the
\* call returned the value
C10_Witness ==
  /\ pc = "done" /\ cur.lsThrew /\ cur.from = "race"
  /\ result.kind = "value"
  /\ StorageKey(dateStr) \notin DOMAIN localStorage

(***************************************************************************)
(* Termination of getReadings (SpecLive).                                  *)
(***************************************************************************)
Awaiting == pc \in {"direct", "directText", "race"}

\* C11: a getReadings call that is waiting for the network always ends,
\* whether or not any request is ever answered
C11_CallEnds == Awaiting ~> (pc = "done")

\* once the fallback race has started the call always ends: the deadline of
\* line 154 bounds the wait
RaceWaitEnds == (pc = "race") ~> (pc = "done")

(***************************************************************************)
(* Arguments getReadings rejects (Spec).                                   *)
(***************************************************************************)
\* a string that is not six digits or names no calendar date, or a value
\* that is neither a string nor a Date
RejectedArg(a) ==
  \/ a.t = "other"
  \/ a.t = "string" /\ (~IsSixDigits(a.s) \/ ~ExistingDate(a.s))

RejectionOf(a) ==
  IF a.t = "other" THEN ArgumentError
  ELSE IF ~IsSixDigits(a.s) THEN FormatError
  ELSE InvalidDateError

\* C12: a getReadings call with a malformed or invalid key string, or with an
\* argument that is neither a Date nor a string, throws the codec's or the
\* argument error in its first step, having looked into no cache and made no
\* request, and leaves both cache tiers as they were
C12_BadArgumentRejected ==
  [][(calls' = calls + 1 /\ RejectedArg(arg'))
       => /\ pc' = "done"
          /\ result' = Thrown(RejectionOf(arg'))
          /\ cur' = NewCur
          /\ UNCHANGED cacheVars]_vars

(***************************************************************************)
(* Round trip of the date codec (SpecDate).                                *)
(***************************************************************************)
RoundTripDone == "again" \in DOMAIN fnOut

\* decode gave the month, the day and the year 2000+YY the key spells, and
\* encode gave the key back
SpellsOut ==
  /\ getMonth(fnOut.out.date) + 1 = parseInt2(SubSeq(fnIn, 1, 2))
  /\ getDate(fnOut.out.date) = parseInt2(SubSeq(fnIn, 3, 4))
  /\ getFullYear(fnOut.out.date) = 2000 + parseInt2(SubSeq(fnIn, 5, 6))
  /\ fnOut.key = fnIn

\* C13: for every six-digit key decode accepts, decoding the encoding of the
\* decoded date gives the decoded date again; for a key naming a calendar
\* date, decode gives its month, day and year 2000+YY and encode gives the
\* key back
C13_RoundTripStable ==
  RoundTripDone
    => /\ fnOut.again = fnOut.out
       /\ ExistingDate(fnIn) => SpellsOut

\* the round trip on the keys that name a calendar date
RoundTripOnCalendarDates ==
  (RoundTripDone /\ ExistingDate(fnIn))
    => fnOut.again = fnOut.out /\ SpellsOut

(***************************************************************************)
(* Injectivity of formatDateForUrl (SpecEncode).                           *)
(***************************************************************************)
\* C14: two distinct calendar dates of the years 2000-2099 never get the same
\* six-character key
C14_EncodeInjective ==
  (fnOut.applied /\ fnIn[1] # fnIn[2])
    => /\ fnOut.keys[1] # fnOut.keys[2]
       /\ Len(fnOut.keys[1]) = 6 /\ Len(fnOut.keys[2]) = 6

\* 12 January and 2 November of one year: keys that differ only by the
\* padding of month and day
C14_Witness ==
  /\ fnOut.applied
  /\ fnIn = <<DaysFromCivil(2010, 1, 12), DaysFromCivil(2010, 11, 2)>>
  /\ fnOut.keys = << <<"0", "1", "1", "2", "1", "0">>,
                     <<"1", "1", "0", "2", "1", "0">> >>

(***************************************************************************)
(* Properties of the page parser (SpecParse).                              *)
(***************************************************************************)
Seasons ==
  {"Advent", "Christmas", "Lent", "Easter", "Pentecost", "Ordinary Time",
   "Unknown"}
Ranks == {"Solemnity", "Feast", "Memorial", "Ferial"}

\* C15: every record parseReadings produces has one of the seven seasons and
\* one of the four ranks, Unknown and Ferial when the title is empty, and a
\* readings field that is a sequence, possibly empty
C15_EnumeratedFields ==
  fnOut.applied
    => /\ fnOut.out.season \in Seasons
       /\ fnOut.out.rank \in Ranks
       /\ fnOut.out.title = <<>>
            => fnOut.out.season = "Unknown" /\ fnOut.out.rank = "Ferial"
       /\ "readings" \in DOMAIN fnOut.out
       /\ DOMAIN fnOut.out.readings = 1..Len(fnOut.out.readings)
       /\ Len(fnOut.out.readings) <= Len(fnIn.blocks)

\* a page whose heading is blank and which has no verse block
C15_Witness ==
  /\ fnOut.applied
  /\ fnIn.h2 = Node(<<" ">>)
  /\ fnOut.out.title = <<>>
  /\ fnOut.out.season = "Unknown" /\ fnOut.out.rank = "Ferial"
  /\ fnOut.out.readings = <<>>

\* word occurs in title at position i, letter case ignored
MatchesNoCaseAt(title, word, i) ==
  /\ i + Len(word) - 1 <= Len(title)
  /\ \A j \in 1..Len(word) : LowerChar(title[i + j - 1]) = LowerChar(word[j])

OccursNoCase(title, word) ==
  \E i \in 1..Len(title) : MatchesNoCaseAt(title, word, i)

SolemnityTier ==
  { <<"s", "o", "l", "e", "m", "n", "i", "t", "y">>,
    <<"c", "h", "r", "i", "s", "t", "m", "a", "s">>,
    <<"e", "p", "i", "p", "h", "a", "n", "y">>,
    <<"e", "a", "s", "t", "e", "r">>,
    <<"p", "e", "n", "t", "e", "c", "o", "s", "t">>,
    <<"a", "s", "c", "e", "n", "s", "i", "o", "n">>,
    <<"a", "s", "s", "u", "m", "p", "t", "i", "o", "n">>,
    <<"a", "l", "l", " ", "s", "a", "i", "n", "t", "s">>,
    <<"i", "m", "m", "a", "c", "u", "l", "a", "t", "e", " ", "c", "o", "n", "c", "e", "p", "t", "i", "o", "n">> }
FeastTier == { <<"f", "e", "a", "s", "t">> }
MemorialTier ==
  { <<"m", "e", "m", "o", "r", "i", "a", "l">>,
    <<"s", "t", ".", " ">>,
    <<"s", "a", "i", "n", "t", " ">> }

InTier(title, tier) == \E w \in tier : OccursNoCase(title, w)

\* C16: the rank of a title is Solemnity if a solemnity keyword occurs in it
\* in any letter case; otherwise Feast if 'feast' occurs; otherwise Memorial
\* if 'memorial', 'st. ' or 'saint ' occurs; otherwise Ferial
C16_RankPriority ==
  fnOut.applied
    => fnOut.out.rank =
         IF InTier(fnOut.out.title, SolemnityTier) THEN "Solemnity"
         ELSE IF InTier(fnOut.out.title, FeastTier) THEN "Feast"
         ELSE IF InTier(fnOut.out.title, MemorialTier) THEN "Memorial"
         ELSE "Ferial"

\* a title with FEAST and then Epiphany
C16_Witness ==
  /\ fnOut.applied
  /\ fnOut.out.title = <<"F", "E", "A", "S", "T", "E", "p", "i", "p", "h", "a", "n", "y">>
  /\ fnOut.out.rank = "Solemnity"

\* word occurs in title, letter for letter
Occurs(title, word) ==
  \E i \in 1..Len(title) :
    /\ i + Len(word) - 1 <= Len(title)
    /\ \A j \in 1..Len(word) : title[i + j - 1] = word[j]

SeasonOrder ==
  << [name |-> "Advent", word |-> <<"A", "d", "v", "e", "n", "t">>],
     [name |-> "Christmas", word |-> <<"C", "h", "r", "i", "s", "t", "m", "a", "s">>],
     [name |-> "Lent", word |-> <<"L", "e", "n", "t">>],
     [name |-> "Easter", word |-> <<"E", "a", "s", "t", "e", "r">>],
     [name |-> "Pentecost", word |-> <<"P", "e", "n", "t", "e", "c", "o", "s", "t">>],
     [name |-> "Ordinary Time", word |-> <<"O", "r", "d", "i", "n", "a", "r", "y", " ", "T", "i", "m", "e">>] >>

SeasonsIn(title) == {k \in 1..Len(SeasonOrder) : Occurs(title, SeasonOrder[k].word)}

Least(S) == CHOOSE k \in S : \A l \in S : k <= l

\* C17: the season of a title is the first of Advent, Christmas, Lent,
\* Easter, Pentecost, Ordinary Time that occurs in it letter for letter;
\* Ordinary Time when the title is not empty and none occurs; Unknown when
\* the title is empty
C17_SeasonFirstMatch ==
  fnOut.applied
    => fnOut.out.season =
         IF fnOut.out.title = <<>> THEN "Unknown"
         ELSE IF SeasonsIn(fnOut.out.title) = {} THEN "Ordinary Time"
         ELSE SeasonOrder[Least(SeasonsIn(fnOut.out.title))].name

\* a title with Easter and then Christmas
C17_Witness ==
  /\ fnOut.applied
  /\ fnOut.out.title = <<"E", "a", "s", "t", "e", "r", "C", "h", "r", "i", "s", "t", "m", "a", "s">>
  /\ fnOut.out.season = "Christmas"

\* titles with a keyword in another letter case, and with none
C17_WitnessNoMatch ==
  /\ fnOut.applied
  /\ fnOut.out.title \in { <<"a", "d", "v", "e", "n", "t">>, <<"E", "x", "c", "e", "l", "l", "e", "n", "t">>, <<"M", "o", "n", "d", "a", "y">> }
  /\ fnOut.out.season = "Ordinary Time"

\* the position on the page of the block the k-th reading was made from: the
\* name of the i-th block is "R" and the digit i
SourceOf(k) == DigitVal(fnOut.out.readings[k].name[2])

Retained == {i \in 1..Len(fnIn.blocks) :
               fnIn.blocks[i].name.present /\ fnIn.blocks[i].body.present}

\* C18: the readings are the blocks that have a name and a body, in the
\* order of the page; a block with neither name nor body gives no reading;
\* a reading whose block has no reference link has the empty string as
\* reference and as referenceUrl
C18_ReadingsInDocumentOrder ==
  fnOut.applied
    => LET rs == fnOut.out.readings
       IN  /\ {SourceOf(k) : k \in 1..Len(rs)} = Retained
           /\ \A k \in 1..(Len(rs) - 1) : SourceOf(k) < SourceOf(k + 1)
           /\ \A i \in 1..Len(fnIn.blocks) :
                (~fnIn.blocks[i].name.present /\ ~fnIn.blocks[i].body.present)
                  => \A k \in 1..Len(rs) : SourceOf(k) # i
           /\ \A k \in 1..Len(rs) :
                /\ rs[k].text = fnIn.blocks[SourceOf(k)].body.text
                /\ ~fnIn.blocks[SourceOf(k)].link.present
                     => rs[k].reference = <<>> /\ rs[k].referenceUrl = <<>>

\* three blocks: the first with name, link and body, the second with
\* neither name nor body, the third with name and body but no link
C18_Witness ==
  /\ fnOut.applied
  /\ fnIn.blocks = << VerseBlock(1, TRUE, TRUE, TRUE),
                      VerseBlock(2, FALSE, TRUE, FALSE),
                      VerseBlock(3, TRUE, FALSE, TRUE) >>
  /\ Len(fnOut.out.readings) = 2
  /\ fnOut.out.readings[1].reference = <<"M", "t", "1">>
  /\ fnOut.out.readings[2] =
       [name |-> <<"R", "3">>, reference |-> <<>>, referenceUrl |-> <<>>,
        text |-> <<"b", "3">>]

(***************************************************************************)
(* When the fallback race is started (Spec).                               *)
(***************************************************************************)
\* C19: in a call whose fetchUrl returned a body no race is started and no
\* proxy request is made, whatever happens to the body afterwards
C19_NoRaceAfterDirectBody ==
  cur.from = "direct"
    => pc # "race" /\ raceCaller = "none" /\ cur.proxy = 0

\* a race is only ever started by a call whose direct request was made
RaceOnlyAfterDirectAttempt ==
  pc = "race" => cur.direct = 1 /\ hasWindow

(***************************************************************************)
(* Cancellation in the race (SpecRace).                                    *)
(***************************************************************************)
\* route i wins in this step
Wins(i) == route[i] = "reading" /\ route'[i] = "won"

Won == \E i \in Routes : route[i] = "won"

\* C20: in the step in which a route wins, the signal of every other route
\* is aborted and the winner's own signal is left as it was; a route whose
\* start timer has not fired when the race is won never makes its request
C20_LosersCancelled ==
  /\ [][\A i \in 1..nRoutes :
          Wins(i) => /\ \A j \in (1..nRoutes) \ {i} : aborted'[j]
                     /\ aborted'[i] = aborted[i]]_vars
  /\ [][\A j \in Routes :
          (Won /\ SameRace /\ route[j] = "scheduled")
            => /\ route'[j] \in {"scheduled", "skipped"}
               /\ cur'.proxy = cur.proxy]_vars

\* the first route won before the start timer of the second fired, and the
\* second then returned without a request
C20_Witness ==
  /\ route[1] = "won" /\ route[2] = "skipped"
  /\ ~aborted[1] /\ aborted[2]
  /\ cur.proxy = 1
  /\ promise = Fulfilled(RouteBody(1))

(***************************************************************************)
(* The shared deadline of the race (SpecRace).                             *)
(***************************************************************************)
TimerFires == globalTimer = "armed" /\ globalTimer' = "fired"

\* the last route fails in this step, none having succeeded
LastFailure ==
  /\ failures' = nRoutes /\ failures = nRoutes - 1
  /\ \A i \in Routes : ~Succeeded(i)

\* C21: when the deadline timer fires before any route has succeeded, every
\* route's signal is aborted and the Promise is rejected with the timeout
\* error; when a route wins or the last route fails while the timer is armed,
\* the timer is cleared, and a cleared timer never fires and never goes with
\* a timeout outcome
C21_SharedDeadline ==
  /\ [][(TimerFires /\ \A i \in Routes : ~Succeeded(i))
          => /\ \A j \in 1..nRoutes : aborted'[j]
             /\ promise' = Rejected(RaceTimeoutError)]_vars
  /\ [][(globalTimer = "armed" /\ ((\E i \in Routes : Wins(i)) \/ LastFailure))
          => globalTimer' = "cleared"]_vars
  /\ [][(globalTimer = "cleared" /\ SameRace) => globalTimer' = "cleared"]_vars
  /\ [](globalTimer = "cleared" => promise # Rejected(RaceTimeoutError))

\* the deadline fired before the start timer of the last route: every signal
\* is aborted, the outcome is the timeout
C21_Witness ==
  /\ globalTimer = "fired"
  /\ \E j \in 1..nRoutes : route[j] = "scheduled"
  /\ \A j \in 1..nRoutes : aborted[j]
  /\ promise = Rejected(RaceTimeoutError)

\* the timer was cleared by a winner, and the callbacks that remained ran
C21_WitnessCleared ==
  /\ globalTimer = "cleared"
  /\ RaceQuiescent
  /\ Won

(***************************************************************************)
(* The cache lookup of getReadings (Spec).                                 *)
(***************************************************************************)
\* getReadings is called in this step with an argument lines 62-69 accept
AcceptedCall == calls' = calls + 1 /\ Normalize(arg').ok

MemoryHas(key) == key \in DOMAIN cache

\* the durable tier holds an entry for the key and no storage helper catches
\* an exception during the call made in this step
DurableGives(key) ==
  /\ StorageKey(key) \in DOMAIN localStorage
  /\ ~cur'.lsThrew

\* C22: a call whose key is in the in-memory map returns that entry and
\* leaves both tiers alone; a call whose key is only in the durable tier
\* returns the stored value, having put it into the in-memory map, and makes
\* no request; the next call with that key is answered from the in-memory map
C22_LookupOrderAndPromotion ==
  /\ [][(AcceptedCall /\ MemoryHas(dateStr'))
          => /\ pc' = "done"
             /\ result' = Returned(cache[dateStr'])
             /\ cur' = [NewCur EXCEPT !.from = "memory"]
             /\ UNCHANGED cacheVars]_vars
  /\ [][(AcceptedCall /\ ~MemoryHas(dateStr') /\ DurableGives(dateStr'))
          => /\ pc' = "done"
             /\ result'.kind = "value"
             /\ heap'[result'.ref] = localStorage[StorageKey(dateStr')].value
             /\ dateStr' \in DOMAIN cache'
             /\ cache'[dateStr'] = result'.ref
             /\ cur'.direct = 0 /\ cur'.proxy = 0 /\ raceCaller' = "none"
             /\ localStorage' = localStorage]_vars
  /\ [][(pc = "done" /\ cur.from = "durable" /\ AcceptedCall
           /\ dateStr' = dateStr)
          => cur'.from = "memory" /\ result' = result]_vars

\* two calls with one key and no request: the first answered from the durable
\* tier, the second from the in-memory map
C22_Witness ==
  /\ pc = "done" /\ Len(history) = 2
  /\ history[1].key = history[2].key
  /\ history[1].kind = "value" /\ history[1].direct = 0
  /\ history[2].ref = history[1].ref
  /\ cur.from = "memory"
  /\ StorageKey(dateStr) \in DOMAIN localStorage

(***************************************************************************)
(* The key getReadings uses (Spec).                                        *)
(***************************************************************************)
\* a call with a key string that lines 62-64 accepted is under way or done
StringCall == pc # "idle" /\ arg.t = "string" /\ Normalize(arg).ok

\* C23: for every key string getReadings accepts, the key it uses for the
\* caches and the URL is the encoding of the date the string decodes to
C23_CanonicalKey ==
  StringCall => dateStr = formatDateForUrl(dateVal)

\* the same for the key strings that name a calendar date
CanonicalOnCalendarDates ==
  (StringCall /\ ExistingDate(arg.s)) => dateStr = formatDateForUrl(dateVal)

\* a call with a Date and a call with the key string of that date use one key
DateAndStringShareKey ==
  \A i, j \in 1..Len(history) :
    (i < j /\ history[i].kind = "value" /\ history[i].key = K121525
       /\ arg \in {StringArg(K121525), DateArg(DaysFromCivil(2025, 12, 15))}
       /\ j = Len(history) /\ pc = "done")
      => cur.from = "memory"

(***************************************************************************)
(* What a failed call leaves behind (Spec).                                *)
(***************************************************************************)
TiersChange == cache' # cache \/ localStorage' # localStorage

\* a call ends in this step
CallEnds == Len(history') = Len(history) + 1

\* C24: the cache tiers change only in the step in which a call returns a
\* value it parsed or read from the durable tier, and then the in-memory map
\* gains exactly the entry of that call's key; so no step of a call that ends
\* in an error changes a tier, the key of a failed call is not in the
\* in-memory map, and the next call with that key is not answered from it
C24_ErrorLeavesCachesUnchanged ==
  /\ [][TiersChange
          => /\ CallEnds
             /\ result'.kind = "value"
             /\ cur'.from \in {"durable", "direct", "race"}
             /\ cache' = (dateStr' :> result'.ref) @@ cache]_vars
  /\ [][(CallEnds /\ result'.kind = "error")
          => UNCHANGED <<cache, localStorage>>]_vars
  /\ [](pc = "done" /\ result.kind = "error" /\ Normalize(arg).ok
          => dateStr \notin DOMAIN cache)
  /\ [][(pc = "done" /\ result.kind = "error" /\ AcceptedCall
           /\ dateStr' = dateStr)
          => cur'.from # "memory"]_vars

\* a call failed after its direct request, and the next call with the same
\* key is making the direct request again, both tiers being empty
C24_Witness ==
  /\ pc = "direct" /\ Len(history) = 1
  /\ history[1].kind = "error" /\ history[1].direct = 1
  /\ history[1].key = dateStr
  /\ cur.direct = 1
  /\ cache = EmptyMap /\ localStorage = EmptyMap

\* a call failed in a browser after the race delivered a body that could not
\* be parsed
C24_WitnessParseFailure ==
  /\ pc = "done" /\ result.kind = "error" /\ cur.from = "race"
  /\ promise.state = "fulfilled"
  /\ cache = EmptyMap
====
